---- MODULE Spec2Model ----
(***************************************************************************)
(* Model of src/app.py (pdf_translator): page-text extraction, stripping   *)
(* of <think> reasoning spans, the two streamed completion stages, and the *)
(* Streamlit script that runs them against st.session_state.               *)
(*                                                                         *)
(* A Python str is a sequence of one-character strings, so concatenation,  *)
(* str.join, str.strip and re.sub are computed character by character.     *)
(***************************************************************************)
EXTENDS Integers, Sequences, FiniteSets, TLC

VARIABLES
    (* remove_think_tags, applied repeatedly to a text *)
    think_text,      \* the text first handed to remove_think_tags
    think_results,   \* the values returned by the successive applications
    (* extract_all_text *)
    pdf_pages,       \* pdf_reader.pages: the page texts page.extract_text() yields
    extracted,       \* [done, text]: the value extract_all_text returned
    (* one call of format_extraction / translate_to_malayalam *)
    stage_text,      \* the text argument
    stage_provider,  \* what the Groq client does during this call
    stage_outcome,   \* what the call did: returned value, or propagated exception
    (* the Streamlit session driven by main() *)
    api_key,         \* st.text_input("Enter API Key (if required)")
    uploaded_file,   \* st.file_uploader: [present, pages]
    view_mode,       \* st.radio("Select View Mode")
    page_number,     \* st.number_input("Select a page")
    session_state,   \* st.session_state: key -> stored string
    format_log,      \* history: key -> the latest format_extraction run stored under it
    last_run         \* history: the stage call made by the latest script run

thinkVars == <<think_text, think_results>>
extractVars == <<pdf_pages, extracted>>
stageVars == <<stage_text, stage_provider, stage_outcome>>
appVars == <<api_key, uploaded_file, view_mode, page_number, session_state,
             format_log, last_run>>
vars == <<thinkVars, extractVars, stageVars, appVars>>

-----------------------------------------------------------------------------
(* Strings *)

RECURSIVE Concat(_)
Concat(parts) ==
    IF parts = <<>> THEN <<>> ELSE Head(parts) \o Concat(Tail(parts))

\* All sequences over S of length 0..n
SeqsUpTo(S, n) == UNION {[1..k -> S] : k \in 0..n}

\* t[pos..] begins with pat
StartsAt(t, pos, pat) ==
    /\ pos + Len(pat) - 1 <= Len(t)
    /\ \A k \in 1..Len(pat) : t[pos + k - 1] = pat[k]

\* str.isspace() for the ASCII whitespace characters
Whitespace == {" ", "\t", "\n", "\r", "\f"}

RECURSIVE lstrip(_)
lstrip(t) ==
    IF t # <<>> /\ Head(t) \in Whitespace THEN lstrip(Tail(t)) ELSE t

RECURSIVE rstrip(_)
rstrip(t) ==
    IF t # <<>> /\ t[Len(t)] \in Whitespace
    THEN rstrip(SubSeq(t, 1, Len(t) - 1))
    ELSE t

\* str.strip()
strip(t) == rstrip(lstrip(t))

-----------------------------------------------------------------------------
(* remove_think_tags: re.sub(r"<think>.*?</think>", "", text, flags=re.DOTALL).strip() *)

ThinkOpen == <<"<", "t", "h", "i", "n", "k", ">">>
ThinkClose == <<"<", "/", "t", "h", "i", "n", "k", ">">>

\* "." without re.DOTALL: any character but a newline
dot_matches_no_dotall(c) == c # "\n"

\* "." under re.DOTALL: any character
dot_matches(c) == TRUE

\* The lazy ".*?" followed by "</think>", tried from position j: the position
\* just past the match, or 0 when the pattern cannot match.
RECURSIVE lazy_close(_, _)
lazy_close(t, j) ==
    IF StartsAt(t, j, ThinkClose) THEN j + Len(ThinkClose)
    ELSE IF j <= Len(t) /\ dot_matches(t[j]) THEN lazy_close(t, j + 1)
    ELSE 0

\* The pattern tried at position pos: position just past the match, or 0.
match_at(t, pos) ==
    IF StartsAt(t, pos, ThinkOpen) THEN lazy_close(t, pos + Len(ThinkOpen)) ELSE 0

\* re.sub with the empty replacement: scan left to right, drop each match and
\* resume right after it, copy every unmatched character.
RECURSIVE sub_from(_, _)
sub_from(t, pos) ==
    IF pos > Len(t) THEN <<>>
    ELSE LET e == match_at(t, pos)
         IN  IF e # 0 THEN sub_from(t, e)
             ELSE <<t[pos]>> \o sub_from(t, pos + 1)

remove_think_tags(text) == strip(sub_from(text, 1))

-----------------------------------------------------------------------------
(* Repeated application of remove_think_tags to bounded inputs *)

MaxPieces == 5
MaxApplications == 2

ThinkPieces ==
    { ThinkOpen, ThinkClose, <<"<", "t", "h", "i">>, <<"n", "k", ">">>,
      <<"x">>, <<" ">>, <<"\n">> }

ThinkInputs == {Concat(ps) : ps \in SeqsUpTo(ThinkPieces, MaxPieces)}

ThinkIdle ==
    /\ think_text = <<>>
    /\ think_results = <<>>

ThinkInit ==
    /\ think_text \in ThinkInputs
    /\ think_results = <<>>

\* The text the next application reads: the input, then each result in turn
ThinkCurrent ==
    IF think_results = <<>> THEN think_text
    ELSE think_results[Len(think_results)]

ApplyRemoveThinkTags ==
    /\ Len(think_results) < MaxApplications
    /\ think_results' = Append(think_results, remove_think_tags(ThinkCurrent))
    /\ UNCHANGED think_text

-----------------------------------------------------------------------------
(* extract_all_text *)

PageBreak ==
    <<"\n", "\n", "-", "-", "-", " ", "P", "a", "g", "e", " ",
      "B", "r", "e", "a", "k", " ", "-", "-", "-", "\n", "\n">>

\* str.join with a trailing separator after the last item
str_join_trailing(sep, items) == Concat([i \in 1..Len(items) |-> items[i] \o sep])

\* sep.join(items): the items in order with sep between neighbours, "" for no item
RECURSIVE str_join(_, _)
str_join(sep, items) ==
    IF items = <<>> THEN <<>>
    ELSE IF Len(items) = 1 THEN items[1]
    ELSE items[1] \o sep \o str_join(sep, Tail(items))

\* text = []; for page in pdf_reader.pages: text.append(page.extract_text())
RECURSIVE collect_page_texts(_, _)
collect_page_texts(pages, text) ==
    IF pages = <<>> THEN text
    ELSE collect_page_texts(Tail(pages), Append(text, Head(pages)))

extract_all_text(pages) == str_join(PageBreak, collect_page_texts(pages, <<>>))

MaxPages == 2
MaxPagePieces == 2

Hello == <<"H", "e", "l", "l", "o">>
World == <<"W", "o", "r", "l", "d">>

PagePieces ==
    { Hello, <<"\n", "\n">>,
      <<"-", "-", "-", " ", "P", "a", "g", "e", " ",
        "B", "r", "e", "a", "k", " ", "-", "-", "-">> }

PageTexts == {Concat(ps) : ps \in SeqsUpTo(PagePieces, MaxPagePieces)} \cup {World}

ExtractIdle ==
    /\ pdf_pages = <<>>
    /\ extracted = [done |-> FALSE, text |-> <<>>]

ExtractInit ==
    /\ pdf_pages \in SeqsUpTo(PageTexts, MaxPages)
    /\ extracted = [done |-> FALSE, text |-> <<>>]

ExtractAllText ==
    /\ ~extracted.done
    /\ extracted' = [done |-> TRUE, text |-> extract_all_text(pdf_pages)]
    /\ UNCHANGED pdf_pages

-----------------------------------------------------------------------------
(* format_extraction and translate_to_malayalam *)

FormatErrorPrefix ==
    <<"E", "r", "r", "o", "r", " ", "i", "n", " ", "f", "o", "r", "m", "a", "t",
      "t", "i", "n", "g", " ", "e", "x", "t", "r", "a", "c", "t", "i", "o", "n",
      ":", " ">>

TranslateErrorPrefix ==
    <<"E", "r", "r", "o", "r", " ", "i", "n", " ", "t", "r", "a", "n", "s", "l",
      "a", "t", "i", "o", "n", ":", " ">>

\* One streamed chunk, as the loop sees it:
\*   content   chunk.choices[0].delta.content is a str (possibly "")
\*   none      chunk.choices[0].delta.content is None
\*   malformed chunk.choices is empty: chunk.choices[0] raises IndexError
\*   error     the iterator raises instead of yielding (connection lost)
ContentChunk(s) == [kind |-> "content", content |-> s]
NoneChunk == [kind |-> "none", content |-> <<>>]
MalformedChunk == [kind |-> "malformed", content |-> <<>>]
StreamError == [kind |-> "error", content |-> <<>>]

\* The exception each failure raises, and str(e)
ClientError == [class |-> "GroqError", msg |-> <<"k", "e", "y">>]
RequestError == [class |-> "APIConnectionError", msg |-> <<"n", "e", "t">>]
IterationError == [class |-> "APIError", msg |-> <<"e", "o", "f">>]
IndexError == [class |-> "IndexError", msg |-> <<"i", "d", "x">>]
NoError == [class |-> "none", msg |-> <<>>]

\* Classes an "except Exception" clause catches, among those raised here
ExceptionSubclasses == {"GroqError", "APIConnectionError", "APIError", "IndexError"}

\* An "except groq.APIError" clause
catches_api_errors_only(class) == class \in {"APIConnectionError", "APIError"}

\* except Exception as e
catches(class) == class \in ExceptionSubclasses

\* acc = content + acc
append_fragment_reversed(acc, chunk) ==
    (IF chunk.kind = "none" THEN <<>> ELSE chunk.content) \o acc

\* response += chunk.choices[0].delta.content or ""
append_fragment(acc, chunk) ==
    acc \o (IF chunk.kind = "none" \/ chunk.content = <<>> THEN <<>> ELSE chunk.content)

\* for chunk in completion: ...   The loop's local string when it ends, and how
RECURSIVE consume(_, _)
consume(stream, acc) ==
    IF stream = <<>> THEN [exc |-> NoError, acc |-> acc]
    ELSE LET chunk == Head(stream)
         IN  IF chunk.kind = "error" THEN [exc |-> IterationError, acc |-> acc]
             ELSE IF chunk.kind = "malformed" THEN [exc |-> IndexError, acc |-> acc]
             ELSE consume(Tail(stream), append_fragment(acc, chunk))

\* The credential the client is built with: Groq(api_key=api_key) if api_key else Groq()
Credential(key) == IF key # <<>> THEN key ELSE <<"G", "R", "O", "Q", "_", "A", "P", "I", "_", "K", "E", "Y">>

NoRequest == [sent |-> FALSE, system |-> "none", user |-> <<>>]

\* The try block shared by both stages: what it returns or raises, the request
\* the provider received and the text assembled when it stopped.
completion(system, text, key, provider) ==
    IF ~provider.client
    THEN [exc |-> ClientError, value |-> <<>>, request |-> NoRequest, assembled |-> <<>>]
    ELSE LET request == [sent |-> TRUE, system |-> system, user |-> text]
         IN  IF ~provider.create
             THEN [exc |-> RequestError, value |-> <<>>, request |-> request,
                   assembled |-> <<>>]
             ELSE LET r == consume(provider.stream, <<>>)
                  IN  [exc |-> r.exc,
                       value |-> IF r.exc = NoError THEN remove_think_tags(r.acc) ELSE <<>>,
                       request |-> request,
                       assembled |-> r.acc]

\* try: ... except Exception as e: return prefix + str(e)
\* returned = FALSE means the exception left the function.
stage_call(stage, prefix, text, key, provider) ==
    LET body == completion(stage, text, key, provider)
    IN  [stage |-> stage,
         text |-> text,
         credential |-> Credential(key),
         request |-> body.request,
         assembled |-> body.assembled,
         failure |-> body.exc,
         returned |-> body.exc = NoError \/ catches(body.exc.class),
         value |-> IF body.exc = NoError THEN body.value
                   ELSE IF catches(body.exc.class) THEN prefix \o body.exc.msg
                   ELSE <<>>]

format_extraction(text, key, provider) ==
    stage_call("format", FormatErrorPrefix, text, key, provider)

translate_to_malayalam(text, key, provider) ==
    stage_call("translate", TranslateErrorPrefix, text, key, provider)

MaxChunks == 3

Fragments == {<<"a">>, <<"b">>, <<>>, ThinkOpen, ThinkClose}

Chunks == {ContentChunk(s) : s \in Fragments} \cup {NoneChunk, MalformedChunk, StreamError}

Providers ==
    {[client |-> FALSE, create |-> FALSE, stream |-> <<>>],
     [client |-> TRUE, create |-> FALSE, stream |-> <<>>]}
    \cup {[client |-> TRUE, create |-> TRUE, stream |-> s] : s \in SeqsUpTo(Chunks, MaxChunks)}

ApiKeys == {<<>>, <<"g", "s", "k">>}

StageTexts == {<<>>, Hello, Hello \o PageBreak \o World}

NoCall ==
    [stage |-> "none", text |-> <<>>, credential |-> <<>>, request |-> NoRequest,
     assembled |-> <<>>, failure |-> NoError, returned |-> FALSE, value |-> <<>>]

StageIdle ==
    /\ stage_text = <<>>
    /\ stage_provider = [client |-> FALSE, create |-> FALSE, stream |-> <<>>]
    /\ stage_outcome = NoCall

StageInit ==
    /\ stage_text \in StageTexts
    /\ stage_provider \in Providers
    /\ stage_outcome = NoCall

CallFormatExtraction ==
    /\ stage_outcome.stage = "none"
    /\ stage_outcome' = format_extraction(stage_text, api_key, stage_provider)
    /\ UNCHANGED <<stage_text, stage_provider>>

CallTranslateToMalayalam ==
    /\ stage_outcome.stage = "none"
    /\ stage_outcome' = translate_to_malayalam(stage_text, api_key, stage_provider)
    /\ UNCHANGED <<stage_text, stage_provider>>

-----------------------------------------------------------------------------
(* main(): the Streamlit script.  Every widget interaction reruns it once;  *)
(* each action below is one rerun.  Widget values and st.session_state      *)
(* survive from one rerun to the next; a widget that a rerun does not       *)
(* render, or renders with other arguments, starts again from its default.  *)

Complete == "Complete Document"
Individual == "Individual Pages"
ViewModes == {Complete, Individual}

MaxAppPages == 1

AppPageTexts == {Hello, World}

\* The documents a user uploads: every document of up to MaxAppPages pages,
\* and one with a second page
AppDocuments == SeqsUpTo(AppPageTexts, MaxAppPages) \cup {<<World, Hello>>}

\* [readable = FALSE]: PyPDF2.PdfReader(uploaded_file) raises
Uploads ==
    {[present |-> TRUE, readable |-> TRUE, pages |-> d] : d \in AppDocuments}
    \cup {[present |-> TRUE, readable |-> FALSE, pages |-> <<>>]}

NoUpload == [present |-> FALSE, readable |-> FALSE, pages |-> <<>>]

\* A provider that streams a reply, and one whose request fails
AppProviders ==
    {[client |-> TRUE, create |-> TRUE,
      stream |-> <<ContentChunk(<<"a">>), NoneChunk, ContentChunk(<<"b">>)>>],
     [client |-> TRUE, create |-> FALSE, stream |-> <<>>]}

\* num_pages = len(pdf_reader.pages)
num_pages(file) == Len(file.pages)

\* The script reaches the tabs: a file is there, PdfReader read it, and in
\* page mode number_input(min_value=1, max_value=num_pages) did not raise.
TabsShown(file, mode) ==
    /\ file.present
    /\ file.readable
    /\ mode = Individual => num_pages(file) >= 1

\* The branch's raw_text
raw_text(file, mode, page) ==
    IF mode = Complete THEN extract_all_text(file.pages) ELSE file.pages[page]

\* 'formatted_text' or f'formatted_text_page_{page_number}'
format_key(mode, page) ==
    IF mode = Complete THEN <<"formatted_text">> ELSE <<"formatted_text_page_", page>>

\* st.session_state[key] = value, kept if the key is already there
store_if_absent(state, key, value) ==
    IF key \in DOMAIN state THEN state
    ELSE [k \in DOMAIN state \cup {key} |-> IF k = key THEN value ELSE state[k]]

\* st.session_state[key] = value
store(state, key, value) ==
    [k \in DOMAIN state \cup {key} |-> IF k = key THEN value ELSE state[k]]

\* Always the raw text
text_to_translate_raw(state, key, raw) == raw

\* st.session_state.get(key, raw_text)
text_to_translate(state, key, raw) ==
    IF key \in DOMAIN state THEN state[key] ELSE raw

NoEntry == [present |-> FALSE, ok |-> FALSE, raw |-> <<>>, value |-> <<>>]

NoRun ==
    [stage |-> "none", key |-> <<>>, raw |-> <<>>, cached |-> NoEntry, call |-> NoCall]

\* The format_log entry of a key
Logged(log, key) == IF key \in DOMAIN log THEN log[key] ELSE NoEntry

AppIdle ==
    /\ api_key = <<>>
    /\ uploaded_file = NoUpload
    /\ view_mode = Complete
    /\ page_number = 1
    /\ session_state = <<>>
    /\ format_log = <<>>
    /\ last_run = NoRun

AppInit == AppIdle

\* The user types into the API key field
EnterApiKey(key) ==
    /\ key # api_key
    /\ api_key' = key
    /\ last_run' = NoRun
    /\ UNCHANGED <<uploaded_file, view_mode, page_number, session_state, format_log>>

\* The user uploads a file, replacing the one that is there
UploadFile(file) ==
    /\ file # uploaded_file
    /\ uploaded_file' = file
    /\ view_mode' = IF uploaded_file.present /\ uploaded_file.readable /\ file.readable
                    THEN view_mode ELSE Complete
    /\ page_number' = IF /\ TabsShown(uploaded_file, view_mode)
                         /\ view_mode' = Individual
                         /\ num_pages(file) = num_pages(uploaded_file)
                      THEN page_number ELSE 1
    /\ last_run' = NoRun
    /\ UNCHANGED <<api_key, session_state, format_log>>

\* The user removes the uploaded file
RemoveFile ==
    /\ uploaded_file.present
    /\ uploaded_file' = NoUpload
    /\ view_mode' = Complete
    /\ page_number' = 1
    /\ last_run' = NoRun
    /\ UNCHANGED <<api_key, session_state, format_log>>

SelectViewMode(mode) ==
    /\ uploaded_file.present
    /\ uploaded_file.readable
    /\ mode # view_mode
    /\ view_mode' = mode
    /\ page_number' = 1
    /\ last_run' = NoRun
    /\ UNCHANGED <<api_key, uploaded_file, session_state, format_log>>

SelectPage(n) ==
    /\ TabsShown(uploaded_file, view_mode)
    /\ view_mode = Individual
    /\ n \in 1..num_pages(uploaded_file)
    /\ n # page_number
    /\ page_number' = n
    /\ last_run' = NoRun
    /\ UNCHANGED <<api_key, uploaded_file, view_mode, session_state, format_log>>

\* st.button("Format Extraction") in either branch
ClickFormatExtraction(provider) ==
    /\ TabsShown(uploaded_file, view_mode)
    /\ LET raw == raw_text(uploaded_file, view_mode, page_number)
           key == format_key(view_mode, page_number)
           call == format_extraction(raw, api_key, provider)
       IN  /\ session_state' = IF call.returned
                               THEN store(session_state, key, call.value)
                               ELSE session_state
           /\ format_log' = IF call.returned
                            THEN [k \in DOMAIN format_log \cup {key} |->
                                    IF k = key
                                    THEN [present |-> TRUE, ok |-> call.failure = NoError,
                                          raw |-> raw, value |-> call.value]
                                    ELSE format_log[k]]
                            ELSE format_log
           /\ last_run' = [stage |-> "format", key |-> key, raw |-> raw,
                           cached |-> Logged(format_log, key), call |-> call]
    /\ UNCHANGED <<api_key, uploaded_file, view_mode, page_number>>

\* st.button("Translate to Malayalam") in either branch
ClickTranslate(provider) ==
    /\ TabsShown(uploaded_file, view_mode)
    /\ LET raw == raw_text(uploaded_file, view_mode, page_number)
           key == format_key(view_mode, page_number)
           text == text_to_translate(session_state, key, raw)
           call == translate_to_malayalam(text, api_key, provider)
       IN  last_run' = [stage |-> "translate", key |-> key, raw |-> raw,
                        cached |-> Logged(format_log, key), call |-> call]
    /\ UNCHANGED <<api_key, uploaded_file, view_mode, page_number, session_state,
                   format_log>>

-----------------------------------------------------------------------------
(* Specifications *)

\* The Streamlit session
Init == AppInit /\ ThinkIdle /\ ExtractIdle /\ StageIdle

Next ==
    \/ \E key \in ApiKeys : EnterApiKey(key) /\ UNCHANGED <<thinkVars, extractVars, stageVars>>
    \/ \E file \in Uploads : UploadFile(file) /\ UNCHANGED <<thinkVars, extractVars, stageVars>>
    \/ RemoveFile /\ UNCHANGED <<thinkVars, extractVars, stageVars>>
    \/ \E mode \in ViewModes : SelectViewMode(mode) /\ UNCHANGED <<thinkVars, extractVars, stageVars>>
    \/ \E n \in 1..MaxAppPages + 1 : SelectPage(n) /\ UNCHANGED <<thinkVars, extractVars, stageVars>>
    \/ \E provider \in AppProviders :
          ClickFormatExtraction(provider) /\ UNCHANGED <<thinkVars, extractVars, stageVars>>
    \/ \E provider \in AppProviders :
          ClickTranslate(provider) /\ UNCHANGED <<thinkVars, extractVars, stageVars>>

Spec == Init /\ [][Next]_vars

\* remove_think_tags on bounded inputs
ThinkNext == ApplyRemoveThinkTags /\ UNCHANGED <<extractVars, stageVars, appVars>>

ThinkSpecInit == ThinkInit /\ ExtractIdle /\ StageIdle /\ AppIdle

SpecThink == ThinkSpecInit /\ [][ThinkNext]_vars

\* extract_all_text on bounded documents
ExtractNext == ExtractAllText /\ UNCHANGED <<thinkVars, stageVars, appVars>>

ExtractSpecInit == ExtractInit /\ ThinkIdle /\ StageIdle /\ AppIdle

SpecExtract == ExtractSpecInit /\ [][ExtractNext]_vars

\* One stage call against every provider behaviour
StageCallInit ==
    /\ StageInit
    /\ api_key \in ApiKeys
    /\ uploaded_file = NoUpload
    /\ view_mode = Complete
    /\ page_number = 1
    /\ session_state = <<>>
    /\ format_log = <<>>
    /\ last_run = NoRun
    /\ ThinkIdle
    /\ ExtractIdle

StageNext ==
    \/ CallFormatExtraction /\ UNCHANGED <<thinkVars, extractVars, appVars>>
    \/ CallTranslateToMalayalam /\ UNCHANGED <<thinkVars, extractVars, appVars>>

SpecStage == StageCallInit /\ [][StageNext]_vars

-----------------------------------------------------------------------------
(* Properties of remove_think_tags (SpecThink) *)

Min(S) == CHOOSE m \in S : \A x \in S : m <= x

\* The positions of t at which a <think> marker begins that some </think>
\* marker follows
TerminatedOpens(t) ==
    {s \in 1..Len(t) :
        /\ StartsAt(t, s, ThinkOpen)
        /\ \E j \in s + Len(ThinkOpen)..Len(t) : StartsAt(t, j, ThinkClose)}

\* The positions covered by the spans, taken left to right from position from:
\* each span runs from a <think> marker to the end of the nearest </think>
\* marker after it, and the next span is looked for after that end.
RECURSIVE SpanPositions(_, _)
SpanPositions(t, from) ==
    LET opens == {s \in TerminatedOpens(t) : s >= from}
    IN  IF opens = {} THEN {}
        ELSE LET s == Min(opens)
                 j == Min({c \in s + Len(ThinkOpen)..Len(t) : StartsAt(t, c, ThinkClose)})
                 e == j + Len(ThinkClose) - 1
             IN  (s..e) \cup SpanPositions(t, e + 1)

\* The characters of t at the positions K, in their original order
AtPositions(t, K) ==
    LET kept == SelectSeq([i \in 1..Len(t) |-> i], LAMBDA i : i \in K)
    IN  [r \in 1..Len(kept) |-> t[kept[r]]]

\* u without its leading and trailing whitespace
Trimmed(u) ==
    LET solid == {i \in 1..Len(u) : u[i] \notin Whitespace}
    IN  IF solid = {} THEN <<>>
        ELSE SubSeq(u, Min(solid), CHOOSE m \in solid : \A x \in solid : x <= m)

SpansRemoved(t) == Trimmed(AtPositions(t, (1..Len(t)) \ SpanPositions(t, 1)))

\* The text the i-th application read
ThinkInputOf(i) == IF i = 1 THEN think_text ELSE think_results[i - 1]

\* C7: remove_think_tags removes every span from a <think> marker to the nearest
\* following </think> marker (markers included, across line breaks, every
\* occurrence), leaves a <think> with no following </think> and all other
\* characters in place and in order, and trims the result.
C7_RemovesEverySpan ==
    \A i \in 1..Len(think_results) : think_results[i] = SpansRemoved(ThinkInputOf(i))

\* C7 witness: a span over a line break is removed, the unterminated marker
\* stays, the leading blank is trimmed
C7_Witness ==
    /\ Len(think_results) >= 1
    /\ think_text = ThinkOpen \o <<"\n">> \o ThinkClose \o <<" ">> \o ThinkOpen
    /\ think_results[1] = ThinkOpen

\* C6: remove_think_tags is idempotent: applying it to its own result changes
\* nothing.
C6_Idempotent ==
    Len(think_results) >= 2 => think_results[2] = think_results[1]

-----------------------------------------------------------------------------
(* Properties of extract_all_text (SpecExtract) *)

\* Number of characters before page i in the joined text
RECURSIVE PageOffset(_, _)
PageOffset(pages, i) ==
    IF i = 1 THEN 0
    ELSE PageOffset(pages, i - 1) + Len(pages[i - 1]) + Len(PageBreak)

\* C4: the result holds the page texts in page order, each once, with the
\* separator between neighbours: N-1 separators for N >= 1 pages, "" for N = 0.
C4_PagesJoinedInOrder ==
    extracted.done =>
        LET N == Len(pdf_pages)
            t == extracted.text
        IN  /\ N = 0 => t = <<>>
            /\ N >= 1 =>
                /\ Len(t) = PageOffset(pdf_pages, N) + Len(pdf_pages[N])
                /\ \A i \in 1..N :
                     SubSeq(t, PageOffset(pdf_pages, i) + 1,
                            PageOffset(pdf_pages, i) + Len(pdf_pages[i])) = pdf_pages[i]
                /\ \A i \in 1..N - 1 :
                     SubSeq(t, PageOffset(pdf_pages, i) + Len(pdf_pages[i]) + 1,
                            PageOffset(pdf_pages, i + 1)) = PageBreak

\* C4 witness: pages "Hello", "World"
C4_Witness ==
    /\ extracted.done
    /\ pdf_pages = <<Hello, World>>
    /\ extracted.text = Hello \o PageBreak \o World

\* text.split(sep): cut at each occurrence of sep found scanning left to right
RECURSIVE split_from(_, _, _, _)
split_from(t, sep, pos, start) ==
    IF pos + Len(sep) - 1 > Len(t) THEN <<SubSeq(t, start, Len(t))>>
    ELSE IF StartsAt(t, pos, sep)
         THEN <<SubSeq(t, start, pos - 1)>>
              \o split_from(t, sep, pos + Len(sep), pos + Len(sep))
         ELSE split_from(t, sep, pos + 1, start)

split(t, sep) == split_from(t, sep, 1, 1)

\* C5: splitting the extracted text on the separator gives back the page texts
\* (stated for documents of at least one page).
C5_ResplitLossless ==
    (extracted.done /\ Len(pdf_pages) >= 1) => split(extracted.text, PageBreak) = pdf_pages

-----------------------------------------------------------------------------
(* Properties of one stage call (SpecStage) *)

ProviderFails(provider) ==
    \/ ~provider.client
    \/ ~provider.create
    \/ \E i \in 1..Len(provider.stream) : provider.stream[i].kind \in {"malformed", "error"}

ErrorPrefix(stage) == IF stage = "format" THEN FormatErrorPrefix ELSE TranslateErrorPrefix

\* C3: a stage call always returns; when the provider failed it returns the
\* stage's error prefix followed by the error's message, whatever was assembled.
C3_NeverPropagates ==
    stage_outcome.stage # "none" =>
        /\ stage_outcome.returned
        /\ ProviderFails(stage_provider) =>
              \E e \in {ClientError, RequestError, IterationError, IndexError} :
                  stage_outcome.value = ErrorPrefix(stage_outcome.stage) \o e.msg

\* C3 witness: a malformed chunk after a fragment was assembled
C3_Witness ==
    /\ stage_outcome.stage = "format"
    /\ stage_provider.stream = <<ContentChunk(<<"a">>), MalformedChunk>>
    /\ stage_outcome.assembled = <<"a">>
    /\ stage_outcome.value = FormatErrorPrefix \o IndexError.msg

\* The text a chunk carries: None carries ""
FragmentOf(chunk) == IF chunk.kind = "content" THEN chunk.content ELSE <<>>

\* Number of characters the fragments before the i-th carry
RECURSIVE FragmentOffset(_, _)
FragmentOffset(stream, i) ==
    IF i = 1 THEN 0
    ELSE FragmentOffset(stream, i - 1) + Len(FragmentOf(stream[i - 1]))

\* C8: when the stream ends normally the assembled text is the fragments in
\* emission order, each once, None and "" adding nothing; no fragment gives "".
C8_FragmentsInOrder ==
    (stage_outcome.stage # "none" /\ ~ProviderFails(stage_provider)) =>
        LET stream == stage_provider.stream
            t == stage_outcome.assembled
        IN  /\ Len(t) = FragmentOffset(stream, Len(stream) + 1)
            /\ \A i \in 1..Len(stream) :
                 SubSeq(t, FragmentOffset(stream, i) + 1,
                        FragmentOffset(stream, i + 1)) = FragmentOf(stream[i])

\* C8 witness: fragments "a", None, "b"
C8_Witness ==
    /\ stage_outcome.stage = "translate"
    /\ stage_provider.stream = <<ContentChunk(<<"a">>), NoneChunk, ContentChunk(<<"b">>)>>
    /\ stage_outcome.assembled = <<"a", "b">>

-----------------------------------------------------------------------------
(* Properties of the session (Spec) *)

\* C1: a Translate run whose scope's latest Format run failed submits the
\* scope's raw text.
C1_FailedFormatNotTranslated ==
    ( /\ last_run.stage = "translate"
      /\ last_run.call.request.sent
      /\ last_run.cached.present
      /\ ~last_run.cached.ok )
    => last_run.call.request.user = last_run.raw

\* C2: Translate submits the scope's latest Format text when that run succeeded,
\* and the raw text when no Format run was stored for the scope; Format submits
\* the raw text.
C2_TranslateInput ==
    last_run.call.request.sent =>
        /\ (last_run.stage = "translate" /\ last_run.cached.present /\ last_run.cached.ok)
              => last_run.call.request.user = last_run.cached.value
        /\ (last_run.stage = "translate" /\ ~last_run.cached.present)
              => last_run.call.request.user = last_run.raw
        /\ last_run.stage = "format" => last_run.call.request.user = last_run.raw

\* C2 witness: Translate submitted a Format success text that is not the raw text
C2_Witness ==
    /\ last_run.stage = "translate"
    /\ last_run.call.request.sent
    /\ last_run.cached.present
    /\ last_run.cached.ok
    /\ last_run.call.request.user = last_run.cached.value
    /\ last_run.call.request.user # last_run.raw

\* The keys Format runs store under
FormatKeys == {<<"formatted_text">>} \cup {<<"formatted_text_page_", n>> : n \in 1..MaxAppPages + 1}

C10_TranslateInputIsCurrent ==
    (last_run.stage = "translate" /\ last_run.call.request.sent) =>
        \/ last_run.call.request.user = last_run.raw
        \/ /\ last_run.cached.present
           /\ last_run.cached.raw = last_run.raw
           /\ last_run.call.request.user = last_run.cached.value

====
